---- MODULE Spec2Model ----
(***************************************************************************)
(* Model of barnacle/calibration/dark.py: get_average_dark (the            *)
(* accumulator of the average dark) and check_dark (the diagnostics        *)
(* pass).  Pixel values are integers; sums, means and averages are exact   *)
(* rationals <<numerator, denominator>>, NaN being <<0, 0>>.               *)
(***************************************************************************)
EXTENDS Integers, Sequences, FiniteSets, TLC

(* ------------------------------ bounds -------------------------------- *)
\* number of files of the directory in the runs that vary the file contents
MaxFiles == 2
\* largest number of frames of one exposure file
MaxFrames == 2
\* largest pixel value of a raw frame
MaxVal == 6
\* number of keyword-matching files in the runs that vary the selection
DirFiles == 5
\* detector geometry, scaled down from 16 tracks of 20 spectral samples
NB_TRACKS == 2
SpecWidth == 2

(* --------------------------- exact rationals --------------------------- *)
RECURSIVE GCD(_, _)
GCD(a, b) == IF b = 0 THEN a ELSE GCD(b, a % b)

Abs(n) == IF n < 0 THEN 0 - n ELSE n

NaN == <<0, 0>>
IsNaN(q) == q[2] = 0

\* n / d for d >= 0, reduced; a zero denominator gives NaN
Q(n, d) == IF d = 0 THEN NaN
           ELSE LET g == GCD(Abs(n), d) IN <<n \div g, d \div g>>

QInt(n) == <<n, 1>>
QAdd(a, b) == IF IsNaN(a) \/ IsNaN(b) THEN NaN
              ELSE Q(a[1] * b[2] + b[1] * a[2], a[2] * b[2])
QSub(a, b) == IF IsNaN(a) \/ IsNaN(b) THEN NaN
              ELSE Q(a[1] * b[2] - b[1] * a[2], a[2] * b[2])
QDivN(a, n) == IF IsNaN(a) THEN NaN ELSE Q(a[1], a[2] * n)
QMulN(a, n) == IF IsNaN(a) THEN NaN ELSE Q(a[1] * n, a[2])
QLeq(a, b) == a[1] * b[2] <= b[1] * a[2]
QLess(a, b) == a[1] * b[2] < b[1] * a[2]

\* the array a, with all its elements computed once
Array(a) == IF a = a THEN a ELSE a

RECURSIVE SumF(_, _)
\* sum of the rationals f[x], x in S
SumF(f, S) == IF S = {} THEN QInt(0)
              ELSE LET x == CHOOSE y \in S : TRUE
                   IN QAdd(f[x], SumF(f, S \ {x}))

\* numpy mean of the rationals f[x], x in S (NaN over an empty set)
MeanF(f, S) == QDivN(SumF(f, S), Cardinality(S))

RECURSIVE SumSeq(_)
SumSeq(s) == IF s = <<>> THEN 0 ELSE Head(s) + SumSeq(Tail(s))

(* ------------------------------ geometry ------------------------------ *)
\* pixels of a raw frame: pixel 0 lies in the gap outside every channel
\* of the 96 spatial positions of a slice the model keeps one, the column
\* of the dk56 traces
SpatialAxis == {0}
NbPix == Cardinality(SpatialAxis) * NB_TRACKS * SpecWidth
FramePix == 0 .. NbPix
\* indices of a channel slice: spatial position, track, spectral position
SlicePix == SpatialAxis \X (0 .. NB_TRACKS - 1) \X (0 .. SpecWidth - 1)
ChannelPixel(y, k, w) == 1 + (y * NB_TRACKS + k) * SpecWidth + w
TrackOf(p) == ((p - 1) \div SpecWidth) % NB_TRACKS
SpecOf(p) == (p - 1) % SpecWidth
\* the fixed pixel of the dk56 traces: column 56 of 96, track 15 of 16,
\* spectral sample 10 of 20
DkCol == CHOOSE y \in SpatialAxis : TRUE
DkTrack == NB_TRACKS - 1
DkSpec == SpecWidth \div 2

(* ------------------------- exposure files ----------------------------- *)
Frame(a, b) == [p \in FramePix |->
                  IF p = 0 THEN 0
                  ELSE IF TrackOf(p) = 0 THEN a
                  ELSE IF TrackOf(p) = DkTrack /\ SpecOf(p) = DkSpec THEN b
                  ELSE 0]
FrameSet == {Frame(0, 0), Frame(MaxVal, MaxVal)}
SeqsUpTo(S, n) == UNION {[1 .. k -> S] : k \in 0 .. n}
\* the datacubes of up to MaxFrames frames whose dark level does not decrease
ExposureSet ==
  {e \in SeqsUpTo(FrameSet, MaxFrames) :
     \A i, j \in 1 .. Len(e) : i < j => e[i][1] <= e[j][1]}

\* glint_classes.Null(f): the datacube of the file named f in the directory
\* dir, and its frame count
NullData(dir, f) == (CHOOSE file \in {dir[i] : i \in 1 .. Len(dir)} :
                       file.name = f).data
NullNbimg(dir, f) == Len(NullData(dir, f))
\* Null.getChannels: slices[frame][y, k, w] cut out of the raw frames
GetChannels(data) == [n \in 1 .. Len(data) |->
                        [s \in SlicePix |->
                           data[n][ChannelPixel(s[1], s[2], s[3])]]]

\* a file name is the sequence of its parts; a substring test is a test
\* for one of the parts
Contains(name, part) == \E i \in 1 .. Len(name) : name[i] = part
DarkName(i) == <<"dark", ToString(i), ".mat">>

(* ------------------------------ state --------------------------------- *)
VARIABLES
  listdir,            \* os.listdir(data_path): the files, with their content
  fs,                 \* output_path: does it exist, and the files under it
  nb_files, save, monitor, edges, keyword,     \* arguments
  pc,                 \* position in get_average_dark / check_dark
  dark_list, super_dark, super_dark_channel, nb_img, avg_dark, spatial_axis,
  i_file,             \* index of the next file of the running loop
  loaded,             \* files loaded by the accumulation loop, in order
  list_hist, hist_slices, dark_current, dk56, dk56bis, super_hist, params,
  i_fit,              \* channel of the next Gaussian fit
  fit_failed,         \* channels whose Gaussian fit did not converge
  loaded_check,       \* files loaded by the diagnostics loop, in order
  outcome, exc        \* how the call ended, and the exception it raised

inputs == <<listdir, nb_files, save, monitor, edges, keyword>>
acc == <<dark_list, super_dark, super_dark_channel, nb_img, avg_dark,
         spatial_axis, loaded>>
chk == <<list_hist, hist_slices, dark_current, dk56, dk56bis, super_hist,
         params, i_fit, fit_failed, loaded_check>>
vars == <<inputs, fs, pc, acc, i_file, chk, outcome, exc>>

\* a local name of Python that is not bound yet, and one bound to v
Unbound == <<>>
Bound(v) == <<v>>
IsBound(x) == x # <<>>
ValueOf(x) == x[1]

(* -------------------------- get_average_dark -------------------------- *)
None == <<>>
Idx(k) == <<k>>

\* the filter of the list comprehension
KeepFile(name, kw) == Contains(name, kw) /\ ~ Contains(name, ".txt")

RECURSIVE Filtered(_, _)
\* [data_path+f for f in os.listdir(data_path) if ...]
Filtered(files, kw) ==
  IF files = <<>> THEN <<>>
  ELSE IF KeepFile(Head(files).name, kw)
       THEN <<Head(files).name>> \o Filtered(Tail(files), kw)
       ELSE Filtered(Tail(files), kw)

\* Python's adjustment of one slice bound to a list of length n
AdjustIndex(b, n, default) ==
  IF b = None THEN default
  ELSE IF b[1] < 0 THEN (IF b[1] + n < 0 THEN 0 ELSE b[1] + n)
  ELSE IF b[1] >= n THEN n
  ELSE b[1]

\* PySlice with an inclusive upper bound
PySlice_Inclusive(list, s, e) ==
  LET start == AdjustIndex(s, Len(list), 0)
      stop == IF e = None THEN Len(list)
              ELSE AdjustIndex(Idx(e[1] + 1), Len(list), Len(list))
  IN IF start < stop THEN SubSeq(list, start + 1, stop) ELSE <<>>

\* list[s:e]
PySlice(list, s, e) ==
  LET start == AdjustIndex(s, Len(list), 0)
      stop == AdjustIndex(e, Len(list), Len(list))
  IN IF start < stop THEN SubSeq(list, start + 1, stop) ELSE <<>>

\* SumAxis0 that keeps the first frame only
SumAxis0_FirstFrame(data) ==
  [p \in FramePix |-> IF data = <<>> THEN 0 ELSE data[1][p]]

\* dark.data.sum(axis=0)
SumAxis0(data) == [p \in FramePix |->
                     SumSeq([n \in 1 .. Len(data) |-> data[n][p]])]
\* dark.slices.sum(axis=0)
SumSlices(slices) == [s \in SlicePix |->
                        SumSeq([n \in 1 .. Len(slices) |-> slices[n][s]])]
\* dark.data.mean(axis=(1, 2)): the mean of every frame over its pixels
FrameMeans(data) == [n \in 1 .. Len(data) |->
                       MeanF([p \in FramePix |-> QInt(data[n][p])], FramePix)]

\* AddArrays that overwrites the running sum
AddArrays_Overwrite(total, part) == [p \in DOMAIN total |-> QInt(part[p])]

\* super_dark + dark.data.sum(axis=0)
AddArrays(total, part) == [p \in DOMAIN total |-> QAdd(total[p], QInt(part[p]))]

\* Finalized that leaves the sum undivided
Finalized_NoDivision(total, n) == total

\* super_dark /= nb_img
Finalized(total, n) == [p \in DOMAIN total |-> QDivN(total[p], n)]

\* SaveIf that ignores the flag
SaveIf_Always(flag, files, names) == files \cup names

\* if flag: <write names under output_path>
SaveIf(flag, files, names) == IF flag THEN files \cup names ELSE files

\* lines 136-149: selection of the files, output directory, accumulators
Select ==
  /\ pc = "start"
  /\ dark_list' = PySlice(Filtered(listdir, keyword), nb_files[1], nb_files[2])
  /\ fs' = [fs EXCEPT !.dir = TRUE]
  /\ super_dark' = [p \in FramePix |-> QInt(0)]
  /\ super_dark_channel' = [s \in SlicePix |-> QInt(0)]
  /\ nb_img' = 0
  /\ i_file' = 1
  /\ pc' = "accumulate"
  /\ UNCHANGED <<inputs, avg_dark, spatial_axis, loaded, chk, outcome, exc>>

\* lines 151-170: one iteration of the accumulation loop
Accumulate ==
  /\ pc = "accumulate"
  /\ i_file <= Len(dark_list)
  /\ LET f == dark_list[i_file]
         data == NullData(listdir, f)
     IN /\ loaded' = Append(loaded, f)
        /\ super_dark' = AddArrays(super_dark, SumAxis0(data))
        /\ nb_img' = nb_img + NullNbimg(listdir, f)
        /\ spatial_axis' = Bound(Len(data))
        /\ super_dark_channel' =
             AddArrays(super_dark_channel, SumSlices(GetChannels(data)))
        /\ avg_dark' = IF ~ monitor THEN avg_dark
                       ELSE IF IsBound(avg_dark)
                            THEN Bound(ValueOf(avg_dark) \o FrameMeans(data))
                            ELSE Bound(FrameMeans(data))
  /\ i_file' = i_file + 1
  /\ UNCHANGED <<inputs, fs, pc, dark_list, chk, outcome, exc>>

\* lines 172-177: the division by the frame count, and the two saved arrays
Finalize ==
  /\ pc = "accumulate"
  /\ i_file > Len(dark_list)
  /\ IF nb_img # 0
     THEN /\ super_dark' = Finalized(super_dark, nb_img)
          /\ super_dark_channel' = Finalized(super_dark_channel, nb_img)
          /\ fs' = [fs EXCEPT !.files =
                      SaveIf(save, @, {"superdark", "superdarkchannel"})]
     ELSE UNCHANGED <<super_dark, super_dark_channel, fs>>
  /\ pc' = IF monitor THEN "call_check" ELSE "return"
  /\ UNCHANGED <<inputs, dark_list, nb_img, avg_dark, spatial_axis, loaded,
                 i_file, chk, outcome, exc>>

\* lines 185-189
Return ==
  /\ pc = "return"
  /\ pc' = "done"
  /\ outcome' = "returned"
  /\ UNCHANGED <<inputs, fs, acc, i_file, chk, exc>>

\* an exception leaves get_average_dark
Raise(name) ==
  /\ pc' = "done"
  /\ outcome' = "raised"
  /\ exc' = name


(* ------------------------------ check_dark ---------------------------- *)
\* np.linspace(start, stop, num) for num >= 1
Linspace(start, stop, num) ==
  [i \in 1 .. num |->
     IF i = 1 THEN start
     ELSE QAdd(start, QDivN(QMulN(QSub(stop, start), i - 1), num - 1))]

\* lines 222-223: the bin edges
BinHist(edge_min, edge_max) ==
  Linspace(Q(2 * edge_min - 1, 2), Q(2 * edge_max + 1, 2),
           edge_max - edge_min + 1)

\* lines 222-223, retstep=True: the spacing of the bin edges
Step(edge_min, edge_max) ==
  QDivN(QSub(Q(2 * edge_max + 1, 2), Q(2 * edge_min - 1, 2)),
        edge_max - edge_min)

\* line 224: bin_hist[:-1] + step/2
BinHistCent(edge_min, edge_max) ==
  LET bin_hist == BinHist(edge_min, edge_max)
      step == Step(edge_min, edge_max)
  IN [i \in 1 .. Len(bin_hist) - 1 |-> QAdd(bin_hist[i], QDivN(step, 2))]

\* np.histogram: bin i is [bins[i], bins[i+1]), the last bin is closed
InBin(x, bins, i) ==
  /\ ~ IsNaN(x)
  /\ QLeq(bins[i], x)
  /\ IF i = Len(bins) - 1 THEN QLeq(x, bins[i + 1]) ELSE QLess(x, bins[i + 1])

\* get_histogram: the counts of the values v[x], x in D
GetHistogram(v, D, bins) ==
  [i \in 1 .. Len(bins) - 1 |-> Cardinality({x \in D : InBin(v[x], bins, i)})]

\* dark.data - dark.data.mean(axis=(1, 2))[:, None, None]
MeanSubtracted(data) ==
  LET means == Array(FrameMeans(data))
  IN Array([x \in (1 .. Len(data)) \X FramePix |->
              QSub(QInt(data[x[1]][x[2]]), means[x[1]])])

\* dark.slices - super_dark_channel
BaselineSubtracted(slices, baseline) ==
  Array([n \in 1 .. Len(slices) |->
           [s \in SlicePix |-> QSub(QInt(slices[n][s]), baseline[s])]])

\* dark.slices.mean(axis=(1, 3)): per frame and track
TrackMeans(slices) ==
  [n \in 1 .. Len(slices) |->
     [k \in 0 .. NB_TRACKS - 1 |->
        MeanF(slices[n], {s \in SlicePix : s[2] = k})]]

\* dark.slices[:, 56, 15, :].mean(axis=-1): per frame, over the spectrum
Dk56Samples(slices) ==
  [n \in 1 .. Len(slices) |->
     MeanF(slices[n], {s \in SlicePix : s[1] = DkCol /\ s[2] = DkTrack})]

\* dark.slices[:, 56, 15, 10].mean(axis=-1): the last axis of the
\* one-dimensional selection is the frame axis; reshaped to one row
Dk56bisSamples(slices) ==
  <<MeanF([n \in 1 .. Len(slices) |-> slices[n][<<DkCol, DkTrack, DkSpec>>]],
          1 .. Len(slices))>>

\* lines 259-261: the histogram of every track of one file
HistoPerFile(slices, bins) ==
  [k \in 0 .. NB_TRACKS - 1 |->
     GetHistogram(Array([x \in (1 .. Len(slices)) \X SlicePix |->
                           slices[x[1]][x[2]]]),
                  {x \in (1 .. Len(slices)) \X SlicePix : x[2][2] = k},
                  bins)]

RECURSIVE SumRows(_, _)
\* np.sum(rows, axis=0) of rows of nbins counts
SumRows(rows, nbins) ==
  IF rows = <<>> THEN [i \in 1 .. nbins |-> 0]
  ELSE LET rest == SumRows(Tail(rows), nbins)
       IN [i \in 1 .. nbins |-> Head(rows)[i] + rest[i]]

\* row / np.sum(row): 0 / 0 is NaN
Normalized(row) == [i \in 1 .. Len(row) |-> Q(row[i], SumSeq(row))]

HasNaN(row) == \E i \in DOMAIN row : IsNaN(row[i])

NbBins == Len(BinHist(edges[1], edges[2])) - 1

\* lines 179-183 and 222-226: the call of check_dark
CallCheckDark ==
  /\ pc = "call_check"
  /\ IF ~ IsBound(avg_dark) \/ ~ IsBound(spatial_axis)
     THEN /\ Raise("UnboundLocalError")
          /\ UNCHANGED <<i_file, chk>>
     ELSE /\ pc' = "histograms"
          /\ i_file' = 1
          /\ list_hist' = <<>>
          /\ hist_slices' = <<>>
          /\ UNCHANGED <<dark_current, dk56, dk56bis, super_hist, params,
                         i_fit, fit_failed, loaded_check, outcome, exc>>
  /\ UNCHANGED <<inputs, fs, acc>>

\* lines 228-262: one iteration of the diagnostics loop
HistogramFile ==
  /\ pc = "histograms"
  /\ i_file <= Len(dark_list)
  /\ LET f == dark_list[i_file]
         data == NullData(listdir, f)
         bin_hist == BinHist(edges[1], edges[2])
         slices == BaselineSubtracted(GetChannels(data), super_dark_channel)
     IN /\ loaded_check' = Append(loaded_check, f)
        /\ list_hist' = Append(list_hist,
              GetHistogram(MeanSubtracted(data),
                           (1 .. Len(data)) \X FramePix, bin_hist))
        /\ IF IsBound(dark_current)
           THEN /\ dark_current' =
                     Bound(ValueOf(dark_current) \o TrackMeans(slices))
                /\ dk56' = Bound(ValueOf(dk56) \o Dk56Samples(slices))
                /\ dk56bis' = Bound(ValueOf(dk56') \o Dk56bisSamples(slices))
           ELSE /\ dark_current' = Bound(TrackMeans(slices))
                /\ dk56' = Bound(Dk56Samples(slices))
                /\ dk56bis' = Bound(Dk56bisSamples(slices))
        /\ hist_slices' = Append(hist_slices, HistoPerFile(slices, bin_hist))
  /\ i_file' = i_file + 1
  /\ UNCHANGED <<inputs, fs, pc, acc, super_hist, params, i_fit, fit_failed,
                 outcome, exc>>

\* lines 264-270: the two normalisations
Normalize ==
  /\ pc = "histograms"
  /\ i_file > Len(dark_list)
  /\ super_hist' =
       [k \in 0 .. NB_TRACKS - 1 |->
          Normalized(SumRows([n \in 1 .. Len(hist_slices) |->
                                hist_slices[n][k]], NbBins))]
  /\ list_hist' = Normalized(SumRows(list_hist, NbBins))
  /\ params' = <<>>
  /\ i_fit' = 0
  /\ pc' = "fit"
  /\ UNCHANGED <<inputs, fs, acc, i_file, hist_slices, dark_current, dk56,
                 dk56bis, fit_failed, loaded_check, outcome, exc>>

\* lines 273-277: curve_fit of one track; it raises ValueError on NaN data
\* and RuntimeError when the least-squares fit does not converge
FitChannel ==
  /\ pc = "fit"
  /\ i_fit < NB_TRACKS
  /\ IF HasNaN(super_hist[i_fit])
     THEN /\ Raise("ValueError")
          /\ UNCHANGED <<params, i_fit, fit_failed>>
     ELSE \E converged \in BOOLEAN :
            IF converged
            THEN /\ params' = Append(params, "popt")
                 /\ i_fit' = i_fit + 1
                 /\ UNCHANGED <<pc, fit_failed, outcome, exc>>
            ELSE /\ fit_failed' = fit_failed \cup {i_fit}
                 /\ Raise("RuntimeError")
                 /\ UNCHANGED <<params, i_fit>>
  /\ UNCHANGED <<inputs, fs, acc, i_file, list_hist, hist_slices,
                 dark_current, dk56, dk56bis, super_hist, loaded_check>>

\* lines 278-288: the three HDF5 files
SaveHistograms ==
  /\ pc = "fit"
  /\ i_fit = NB_TRACKS
  /\ fs' = [fs EXCEPT !.files =
              SaveIf(save, @, {"hist_dk_params.hdf5", "hist_dk_slices.hdf5",
                               "hist_dk.hdf5"})]
  /\ pc' = "global_fit"
  /\ UNCHANGED <<inputs, acc, i_file, chk, outcome, exc>>

\* lines 290-308: the fit of the histogram of the whole frame, and its figure
GlobalFit ==
  /\ pc = "global_fit"
  /\ IF HasNaN(list_hist)
     THEN /\ Raise("ValueError")
          /\ UNCHANGED <<fs, fit_failed>>
     ELSE \E converged \in BOOLEAN :
            IF converged
            THEN /\ fs' = [fs EXCEPT !.files =
                             SaveIf(save, @, {"histogram_dark_fullframe.png"})]
                 /\ pc' = "channel_plots"
                 /\ UNCHANGED <<fit_failed, outcome, exc>>
            ELSE /\ Raise("RuntimeError")
                 /\ UNCHANGED <<fs, fit_failed>>
  /\ UNCHANGED <<inputs, acc, i_file, list_hist, hist_slices, dark_current,
                 dk56, dk56bis, super_hist, params, i_fit, loaded_check>>

\* lines 310-344: the two grids of histograms per track
PlotChannels ==
  /\ pc = "channel_plots"
  /\ fs' = [fs EXCEPT !.files =
              SaveIf(save, @, {"histogram_dark.png",
                               "histogram_dark_logscale.png"})]
  /\ pc' = "non_uniformities"
  /\ UNCHANGED <<inputs, acc, i_file, chk, outcome, exc>>

\* lines 347-401: histograms and fits of dk56 and dk56bis.  np.histogram
\* raises ValueError on an empty or NaN sample; curve_fit raises TypeError
\* on fewer bins than parameters and RuntimeError without convergence
InspectNonUniformities ==
  /\ pc = "non_uniformities"
  /\ IF Len(ValueOf(dk56)) = 0 \/ HasNaN(ValueOf(dk56bis))
     THEN Raise("ValueError")
     ELSE \E r \in {"ok", "TypeError", "RuntimeError"} :
            IF r = "ok"
            THEN /\ pc' = "time_lapse"
                 /\ UNCHANGED <<outcome, exc>>
            ELSE Raise(r)
  /\ UNCHANGED <<inputs, fs, acc, i_file, chk>>

\* lines 403-434: drift of every track; np.polyfit raises TypeError when
\* fewer than `binning` frames leave no binned sample
TimeLapse ==
  /\ pc = "time_lapse"
  /\ \E r \in {"ok", "TypeError"} :
       IF r = "ok"
       THEN /\ fs' = [fs EXCEPT !.files =
                        SaveIf(save, @, {"avg_time_lapse.png"})]
            /\ pc' = "full_frame_drift"
            /\ UNCHANGED <<outcome, exc>>
       ELSE /\ Raise(r)
            /\ UNCHANGED fs
  /\ UNCHANGED <<inputs, acc, i_file, chk>>

\* lines 436-485: the traces of dk56 and dk56bis, the drift of the whole
\* frame, and the return to get_average_dark
FullFrameDrift ==
  /\ pc = "full_frame_drift"
  /\ \E r \in {"ok", "TypeError"} :
       IF r = "ok"
       THEN /\ fs' = [fs EXCEPT !.files =
                        SaveIf(save, @, {"avg_dark_fullframe.png"})]
            /\ pc' = "return"
            /\ UNCHANGED <<outcome, exc>>
       ELSE /\ Raise(r)
            /\ UNCHANGED fs
  /\ UNCHANGED <<inputs, acc, i_file, chk>>

(* --------------------------- specification ---------------------------- *)
EdgeSet == {<<0 - 2, 2>>, <<3, 6>>}
SliceBounds == {None} \cup {Idx(k) : k \in (0 - 1) .. (DirFiles + 1)}

\* the exposure of the i-th file of the fixed directory
DefaultExposure(i) ==
  IF i % 2 = 1 THEN <<Frame(MaxVal, 0)>> ELSE <<Frame(0, 0)>>

\* the fixed directory: a text file and a file of another kind among the
\* dark files
DefaultDir ==
  <<[name |-> DarkName(1), data |-> DefaultExposure(1)],
    [name |-> <<"dark", "_log", ".txt">>, data |-> <<>>],
    [name |-> <<"flat", ToString(1), ".mat">>, data |-> <<Frame(0, MaxVal)>>]>>
  \o [i \in 1 .. DirFiles - 1 |->
        [name |-> DarkName(i + 1), data |-> DefaultExposure(i + 1)]]

InitLocals ==
  /\ pc = "start"
  /\ dark_list = <<>>
  /\ super_dark = <<>>
  /\ super_dark_channel = <<>>
  /\ nb_img = 0
  /\ avg_dark = Unbound
  /\ spatial_axis = Unbound
  /\ i_file = 1
  /\ loaded = <<>>
  /\ list_hist = <<>>
  /\ hist_slices = <<>>
  /\ dark_current = Unbound
  /\ dk56 = Unbound
  /\ dk56bis = Unbound
  /\ super_hist = <<>>
  /\ params = <<>>
  /\ i_fit = 0
  /\ fit_failed = {}
  /\ loaded_check = <<>>
  /\ outcome = "running"
  /\ exc = "none"

\* runs over every content of up to MaxFiles dark files, all selected,
\* nothing saved
InitData ==
  /\ \E n \in 0 .. MaxFiles :
       \E content \in [1 .. n -> ExposureSet] :
         listdir = [i \in 1 .. n |-> [name |-> DarkName(i),
                                      data |-> content[i]]]
  /\ nb_files = <<None, None>>
  /\ keyword = "dark"
  /\ edges \in EdgeSet
  /\ save = FALSE
  /\ fs = [dir |-> TRUE, files |-> {}]

\* runs over every selection of the files of the fixed directory, saved
\* or not, output_path existing or not
InitSelect ==
  /\ listdir = DefaultDir
  /\ nb_files \in SliceBounds \X SliceBounds
  /\ keyword \in {"dark", "flat", "bias"}
  /\ edges = <<0 - 2, 2>>
  /\ save \in BOOLEAN
  /\ fs \in [dir : BOOLEAN, files : {{}}]

Init ==
  /\ InitData \/ InitSelect
  /\ monitor \in BOOLEAN
  /\ InitLocals

Next ==
  \/ Select
  \/ Accumulate
  \/ Finalize
  \/ CallCheckDark
  \/ HistogramFile
  \/ Normalize
  \/ FitChannel
  \/ SaveHistograms
  \/ GlobalFit
  \/ PlotChannels
  \/ InspectNonUniformities
  \/ TimeLapse
  \/ FullFrameDrift
  \/ Return

Spec == Init /\ [][Next]_vars

\* the runs that vary the content of the files only
InitOnData ==
  /\ InitData
  /\ monitor \in BOOLEAN
  /\ InitLocals

SpecData == InitOnData /\ [][Next]_vars

TypeOK ==
  /\ pc \in {"start", "accumulate", "call_check", "histograms", "fit",
             "global_fit", "channel_plots", "non_uniformities", "time_lapse",
             "full_frame_drift", "return", "done"}
  /\ outcome \in {"running", "returned", "raised"}
  /\ nb_img \in Nat

(* ------------------------- stated properties -------------------------- *)
\* the frames of all the exposures of a list of files, in order
RECURSIVE AllFrames(_)
AllFrames(list) ==
  IF list = <<>> THEN <<>>
  ELSE NullData(listdir, Head(list)) \o AllFrames(Tail(list))

\* the accumulator has just produced its result
AccumulatorDone == pc \in {"call_check", "return"}

\* the accumulation loop has ended
LoopEnded == pc \notin {"start", "accumulate"}
\* check_dark is running
InCheckDark == pc \in {"histograms", "fit", "global_fit", "channel_plots",
                       "non_uniformities", "time_lapse", "full_frame_drift"}
\* the diagnostics loop of check_dark has ended
DiagnosticsLoopEnded ==
  \/ pc \in {"fit", "global_fit", "channel_plots", "non_uniformities",
             "time_lapse", "full_frame_drift"}
  \/ pc \in {"return", "done"} /\ super_hist # <<>>

\* C1: for a non-empty exposure list with a non-zero total frame count the
\* whole-frame average is, at every pixel, the sum of the pixel over all
\* frames of all exposures divided by the total number of frames
C1_WeightedMean ==
  LET frames == AllFrames(dark_list)
  IN (LoopEnded /\ dark_list # <<>> /\ Len(frames) # 0) =>
       \A p \in FramePix :
         super_dark[p] =
           Q(SumSeq([n \in 1 .. Len(frames) |-> frames[n][p]]), Len(frames))

C1_Witness ==
  /\ pc = "done" /\ outcome = "returned"
  /\ Len(dark_list) >= 2
  /\ NullNbimg(listdir, dark_list[1]) # NullNbimg(listdir, dark_list[2])
  /\ \E p \in FramePix : super_dark[p] \notin {QInt(0), QInt(MaxVal)}

\* lines 147-174 on a list of exposures: the two averages and the count
RECURSIVE AccumulateAll(_, _)
AccumulateAll(list, state) ==
  IF list = <<>> THEN state
  ELSE LET data == NullData(listdir, Head(list))
       IN AccumulateAll(Tail(list),
            <<Array(AddArrays(state[1], SumAxis0(data))),
              Array(AddArrays(state[2], SumSlices(GetChannels(data)))),
              state[3] + Len(data)>>)

ComputeAverage(list) ==
  LET sums == AccumulateAll(list, <<[p \in FramePix |-> QInt(0)],
                                    [s \in SlicePix |-> QInt(0)], 0>>)
  IN IF sums[3] # 0
     THEN <<Finalized(sums[1], sums[3]), Finalized(sums[2], sums[3]), sums[3]>>
     ELSE sums

RECURSIVE Orders(_)
\* the sequences that hold every element of S once
Orders(S) == IF S = {} THEN {<<>>}
             ELSE UNION {{<<x>> \o o : o \in Orders(S \ {x})} : x \in S}

\* the permutations of a list of distinct files
Permuted(list) == Orders({list[i] : i \in 1 .. Len(list)})

\* C2: every permutation of the exposure list gives the same whole-frame
\* average, per-channel average and total frame count
C2_PermutationInvariant ==
  AccumulatorDone =>
    \A perm \in Permuted(dark_list) :
      ComputeAverage(perm) = <<super_dark, super_dark_channel, nb_img>>

C2_Witness ==
  /\ AccumulatorDone
  /\ Len(dark_list) >= 2
  /\ nb_img > 0
  /\ SumAxis0(NullData(listdir, dark_list[1]))
       # SumAxis0(NullData(listdir, dark_list[2]))

\* C3: when the total frame count is zero at the end of the loop, for every
\* save and monitor, no error is raised and the zero arrays are returned
C3_ZeroCountReturnsZeros ==
  (pc = "done" /\ nb_img = 0) =>
    /\ outcome = "returned"
    /\ \A p \in FramePix : super_dark[p] = QInt(0)
    /\ \A s \in SlicePix : super_dark_channel[s] = QInt(0)

\* C4: when the keyword filter selects no file, ConfigurationError is raised
\* before anything is loaded, accumulated or written
C4_EmptySelectionRaises ==
  (pc # "start" /\ Filtered(listdir, keyword) = <<>>) =>
    /\ pc = "done" /\ outcome = "raised" /\ exc = "ConfigurationError"
    /\ loaded = <<>>
    /\ fs.files = {}

\* the sum over all frames of a list of the channel slices
ChannelSum(list) == SumSlices(GetChannels(AllFrames(list)))

\* C5 as stated: check_dark runs only with monitor set and after the loop
\* over all exposures, and its baseline is always the per-channel sum
\* divided by the total frame count
C5_BaselineIsQuotient ==
  InCheckDark =>
    /\ monitor
    /\ loaded = dark_list
    /\ \A s \in SlicePix :
         super_dark_channel[s] =
           Q(ChannelSum(dark_list)[s], Len(AllFrames(dark_list)))

\* C5 as amended: the baseline is that quotient when the total frame count
\* is non-zero and the undivided all-zero sum when it is zero
C5_BaselineIsFinalized ==
  InCheckDark =>
    /\ monitor
    /\ loaded = dark_list
    /\ \A s \in SlicePix :
         super_dark_channel[s] =
           IF Len(AllFrames(dark_list)) # 0
           THEN Q(ChannelSum(dark_list)[s], Len(AllFrames(dark_list)))
           ELSE QInt(0)

C5_Witness ==
  /\ InCheckDark
  /\ Len(dark_list) >= 2
  /\ \E s \in SlicePix : super_dark_channel[s][2] > 1

\* C6 as stated: with save unset no step changes the file system
C6_NoFileSystemChange == [][~ save => fs' = fs]_vars

\* C6 as amended: with save unset no step writes a file under output_path,
\* and the only change is the creation of an absent output_path directory
C6_NoFileWritten ==
  [][~ save => /\ fs'.files = fs.files
               /\ fs.dir => fs' = fs]_vars

C6_Witness ==
  /\ ~ save /\ monitor
  /\ pc = "done" /\ outcome = "returned"
  /\ loaded_check # <<>>
  /\ fs.files = {}

\* C7: a Gaussian fit of one channel that does not converge is confined to
\* that channel: the run finishes and the averages are returned
C7_FitFailureIsolated ==
  (pc = "done" /\ fit_failed # {}) => outcome = "returned"

\* the total count of the combined histogram of track k
TrackTotal(k) ==
  SumSeq(SumRows([n \in 1 .. Len(hist_slices) |-> hist_slices[n][k]], NbBins))

\* C8, on runs with at least one frame: a histogram whose total count is
\* zero is not divided by zero: no row holds a NaN value, the run does not
\* crash on it, and every other row is divided by its own total
C8_NoZeroDivision ==
  (/\ DiagnosticsLoopEnded
   /\ nb_img > 0
   /\ \E k \in 0 .. NB_TRACKS - 1 : TrackTotal(k) = 0) =>
    /\ \A k \in 0 .. NB_TRACKS - 1 : ~ HasNaN(super_hist[k])
    /\ exc # "ValueError"

\* files of list at the 0-indexed positions lo, lo + 1, ..., hi - 1 that exist
AtPositions(got, list, lo, hi) ==
  /\ Len(got) = Cardinality({p \in 0 .. Len(list) - 1 : lo <= p /\ p < hi})
  /\ \A k \in 1 .. Len(got) :
       /\ lo + k \in 1 .. Len(list)
       /\ got[k] = list[lo + k]

SelectionByPosition ==
  LET list == Filtered(listdir, keyword)
      lo == IF nb_files[1] = None THEN 0 ELSE nb_files[1][1]
      hi == IF nb_files[2] = None THEN Len(list) ELSE nb_files[2][1]
  IN /\ LoopEnded => AtPositions(loaded, list, lo, hi)
     /\ DiagnosticsLoopEnded => loaded_check = loaded

\* C9 as stated: for every nb_files = (s, e) exactly the files at positions
\* s .. e-1 are processed, in order, by both passes
C9_SliceByPosition == SelectionByPosition

NonNegative(b) == b = None \/ b[1] >= 0

\* C9 as amended: the same for bounds that are absent or non-negative
C9_SliceByNonNegativePosition ==
  (NonNegative(nb_files[1]) /\ NonNegative(nb_files[2])) => SelectionByPosition

C9_Witness ==
  /\ nb_files = <<Idx(1), Idx(3)>>
  /\ Len(Filtered(listdir, keyword)) = 5
  /\ monitor /\ DiagnosticsLoopEnded
  /\ loaded = <<DarkName(2), DarkName(3)>>
  /\ loaded_check = loaded

\* the single spectral sample of the fixed pixel, one per frame
SingleSamples(list, baseline) ==
  LET slices == BaselineSubtracted(GetChannels(AllFrames(list)), baseline)
  IN [n \in 1 .. Len(slices) |-> slices[n][<<DkCol, DkTrack, DkSpec>>]]

\* C10, on exposures of at least one frame each: after the diagnostics loop
\* dk56bis holds one single spectral sample per frame of the run, in order,
\* and dk56bis, dk56 and dark_current all have the total frame count as length
C10_Dk56bisPerFrame ==
  (/\ DiagnosticsLoopEnded
   /\ Len(dark_list) >= 1
   /\ \A i \in 1 .. Len(dark_list) : NullNbimg(listdir, dark_list[i]) >= 1) =>
    /\ ValueOf(dk56bis) = SingleSamples(dark_list, super_dark_channel)
    /\ Len(ValueOf(dk56bis)) = Len(AllFrames(dark_list))
    /\ Len(ValueOf(dk56)) = Len(AllFrames(dark_list))
    /\ Len(ValueOf(dark_current)) = Len(AllFrames(dark_list))

\* the edges b are strictly increasing, run from edge_min - 0.5 to
\* edge_max + 0.5 and are spaced by exactly 1
UnitWidthEdges(b, edge_min, edge_max) ==
  /\ \A i \in 1 .. Len(b) - 1 : QLess(b[i], b[i + 1])
  /\ b[1] = Q(2 * edge_min - 1, 2)
  /\ b[Len(b)] = Q(2 * edge_max + 1, 2)
  /\ \A i \in 1 .. Len(b) - 1 : QSub(b[i + 1], b[i]) = QInt(1)

\* C11: inside check_dark, called on a run of at least one frame with
\* integers edge_min < edge_max, the bin
\* edges are strictly increasing, start at edge_min - 0.5, end at
\* edge_max + 0.5 and have width exactly 1, and every integer from edge_min
\* to edge_max is the centre of a bin of its own
C11_UnitWidthBins ==
  (InCheckDark /\ nb_img > 0 /\ edges[1] < edges[2]) =>
    LET bin_hist == BinHist(edges[1], edges[2])
        bin_hist_cent == BinHistCent(edges[1], edges[2])
    IN /\ UnitWidthEdges(bin_hist, edges[1], edges[2])
       /\ Step(edges[1], edges[2]) = QInt(1)
       /\ \A n \in edges[1] .. edges[2] :
            Cardinality({i \in 1 .. Len(bin_hist_cent) :
                           bin_hist_cent[i] = QInt(n)}) = 1

====
